---- MODULE Spec2Model ----
(***************************************************************************)
(* A model of fractal-patterns (src/main.py): the geometry kernel (Point), *)
(* the subdivision rules (SidedSegment.up_half_across_and_down and         *)
(* left_triangle), the recursive expander (fractal), the flattening        *)
(* (segments_to_points) and the stroke serialisation (points_to_stroke_d). *)
(*                                                                         *)
(* Coordinates are Python floats, that is IEEE-754 binary64 numbers.  The  *)
(* rotations use math.cos(math.pi / 2), which is 0x1.1a62633145c07p-54 and *)
(* not 0, so the arithmetic is modelled bit for bit: a float is a sign, an *)
(* arbitrary-precision odd mantissa and a binary exponent, and every       *)
(* operation rounds its exact result to 53 bits, ties to even.             *)
(***************************************************************************)
EXTENDS Integers, Sequences, FiniteSets, TLC

(***************************************************************************)
(* Natural numbers of any size: a little-endian sequence of limbs in base  *)
(* 2^14 without leading zero limbs, <<>> being zero.  The operations are   *)
(* written without recursion over the limbs: a carry is found by looking   *)
(* at the lower limbs.                                                     *)
(***************************************************************************)
LimbBits == 14

Base == 2 ^ LimbBits

Max(a, b) == IF a > b THEN a ELSE b

Min(a, b) == IF a < b THEN a ELSE b

\* limb i of a, 0 beyond its length
Limb(a, i) == IF i <= Len(a) THEN a[i] ELSE 0

\* The index of the last non-zero limb of a, 0 if there is none: the
\* length less the number of zero limbs at the top
Top(a) ==
    Len(a) - CHOOSE k \in 0..Len(a) :
                 /\ \A j \in 1..k : a[Len(a) + 1 - j] = 0
                 /\ k = Len(a) \/ a[Len(a) - k] # 0

\* a without its leading zero limbs
BTrim(a) == SubSeq(a, 1, Top(a))

RECURSIVE BFromInt(_)
BFromInt(n) == IF n = 0 THEN <<>> ELSE <<n % Base>> \o BFromInt(n \div Base)

RECURSIVE BToInt(_)
BToInt(a) == IF a = <<>> THEN 0 ELSE Head(a) + Base * BToInt(Tail(a))

\* The carry into limb i of a + b: below i, the nearest limb where the sum
\* of the limbs is not Base - 1 has a sum of Base or more.  The limb just
\* below i decides unless its sum is Base - 1.
Carry(a, b, i) ==
    IF i = 1 THEN 0
    ELSE IF Limb(a, i - 1) + Limb(b, i - 1) >= Base THEN 1
    ELSE IF Limb(a, i - 1) + Limb(b, i - 1) < Base - 1 THEN 0
    ELSE IF \E t \in 2..(i - 1) :
                /\ \A u \in 2..(t - 1) : Limb(a, i - u) + Limb(b, i - u) = Base - 1
                /\ Limb(a, i - t) + Limb(b, i - t) >= Base
         THEN 1 ELSE 0

BAdd(a, b) ==
    BTrim([i \in 1..(Max(Len(a), Len(b)) + 1) |->
              (Limb(a, i) + Limb(b, i) + Carry(a, b, i)) % Base])

\* The borrow from limb i of a - b: below i, the nearest limb where a and b
\* differ has the smaller limb in a.
Borrow(a, b, i) ==
    IF i = 1 THEN 0
    ELSE IF Limb(a, i - 1) < Limb(b, i - 1) THEN 1
    ELSE IF Limb(a, i - 1) > Limb(b, i - 1) THEN 0
    ELSE IF \E t \in 2..(i - 1) :
                /\ \A u \in 2..(t - 1) : Limb(a, i - u) = Limb(b, i - u)
                /\ Limb(a, i - t) < Limb(b, i - t)
         THEN 1 ELSE 0

\* a - b for a >= b
BSub(a, b) ==
    BTrim([i \in 1..Len(a) |-> (a[i] - Limb(b, i) - Borrow(a, b, i)) % Base])

\* The highest limb at which a and b, of the same length, differ
TopDifference(a, b) ==
    CHOOSE i \in 1..Len(a) : a[i] # b[i] /\ \A j \in (i + 1)..Len(a) : a[j] = b[j]

\* -1, 0 or 1 as a < b, a = b or a > b
BCmp(a, b) ==
    IF Len(a) < Len(b) THEN -1
    ELSE IF Len(a) > Len(b) THEN 1
    ELSE IF a = b THEN 0
    ELSE IF a[TopDifference(a, b)] < b[TopDifference(a, b)] THEN -1
    ELSE 1

\* a * k for 0 <= k < Base: the low halves of the products of the limbs,
\* plus the high halves one limb up
BMulLimb(a, k) ==
    BAdd([i \in 1..Len(a) |-> (a[i] * k) % Base],
         <<0>> \o [i \in 1..Len(a) |-> (a[i] * k) \div Base])

\* a * (limbs lo..hi of b) * Base^(lo - 1)
RECURSIVE BMulRows(_, _, _, _)
BMulRows(a, b, lo, hi) ==
    IF lo = hi THEN [i \in 1..(lo - 1) |-> 0] \o BMulLimb(a, b[lo])
    ELSE BAdd(BMulRows(a, b, lo, (lo + hi) \div 2),
              BMulRows(a, b, (lo + hi) \div 2 + 1, hi))

BMul(a, b) ==
    IF a = <<>> \/ b = <<>> THEN <<>> ELSE BTrim(BMulRows(a, b, 1, Len(b)))

\* a * 2^n: whole limbs of zeros, then every limb moved up by the rest
\* of the bits, with the bits that the limb below pushes out
BShl(a, n) ==
    IF a = <<>> THEN <<>>
    ELSE [i \in 1..(n \div LimbBits) |-> 0]
         \o BTrim([i \in 1..(Len(a) + 1) |->
                      (Limb(a, i) % (2 ^ (LimbBits - (n % LimbBits)))) * (2 ^ (n % LimbBits))
                      + (IF i = 1 THEN 0
                         ELSE a[i - 1] \div (2 ^ (LimbBits - (n % LimbBits))))])

\* a \div 2^n
BShr(a, n) ==
    BTrim([i \in 1..Max(Len(a) - n \div LimbBits, 0) |->
              (a[i + n \div LimbBits] \div (2 ^ (n % LimbBits)))
              + (Limb(a, i + n \div LimbBits + 1) % (2 ^ (n % LimbBits)))
                * (2 ^ (LimbBits - (n % LimbBits)))])

\* bit n of a, bit 0 the least significant
BTestBit(a, n) == (Limb(a, n \div LimbBits + 1) \div (2 ^ (n % LimbBits))) % 2

\* a is a multiple of 2^n
BLowZero(a, n) ==
    /\ \A i \in 1..(n \div LimbBits) : Limb(a, i) = 0
    /\ Limb(a, n \div LimbBits + 1) % (2 ^ (n % LimbBits)) = 0

\* The number of bits of a # <<>>
BBitLen(a) ==
    (Len(a) - 1) * LimbBits
    + CHOOSE k \in 1..LimbBits : 2 ^ (k - 1) <= a[Len(a)] /\ a[Len(a)] < 2 ^ k

\* The index of the first non-zero limb of a # <<>>
Bottom(a) ==
    CHOOSE i \in 1..Len(a) : a[i] # 0 /\ \A j \in 1..(i - 1) : a[j] = 0

\* The number of zero bits at the low end of a # <<>>
BTrailingZeros(a) ==
    (Bottom(a) - 1) * LimbBits
    + CHOOSE k \in 0..(LimbBits - 1) :
          a[Bottom(a)] % (2 ^ k) = 0 /\ a[Bottom(a)] % (2 ^ (k + 1)) # 0

(***************************************************************************)
(* Python floats.  [s, m, e] is (-1)^s * m * 2^e with m odd, or m = <<>>   *)
(* and e = 0 for the two zeros.  All values of the model lie far inside    *)
(* the exponent range of binary64, so overflow and subnormals do not       *)
(* occur and are not modelled.                                             *)
(***************************************************************************)
Precision == 53

FNorm(s, m, e) ==
    IF m = <<>> THEN [s |-> s, m |-> <<>>, e |-> 0]
    ELSE [s |-> s, m |-> BShr(m, BTrailingZeros(m)), e |-> e + BTrailingZeros(m)]

\* The rounded mantissa: q, plus one when rounding up.
FRoundUp(s, q, e, up) == FNorm(s, IF up THEN BAdd(q, <<1>>) ELSE q, e)

\* m has k bits too many: drop them, rounding to nearest, ties to even.
FRoundShift(s, m, e, k) ==
    FRoundUp(s, BShr(m, k), e + k,
             /\ BTestBit(m, k - 1) = 1
             /\ \/ ~BLowZero(m, k - 1)
                \/ BTestBit(BShr(m, k), 0) = 1)

\* The binary64 nearest to (-1)^s * m * 2^e, ties to even.
FRound(s, m, e) ==
    IF m = <<>> \/ BBitLen(m) <= Precision THEN FNorm(s, m, e)
    ELSE FRoundShift(s, m, e, BBitLen(m) - Precision)

\* The binary64 nearest to the real number r
FRoundOf(r) == IF r.m = <<>> THEN r ELSE FRound(r.s, r.m, r.e)

FromInt(n) == IF n < 0 THEN FNorm(1, BFromInt(-n), 0) ELSE FNorm(0, BFromInt(n), 0)

FIsZero(x) == x.m = <<>>

FNeg(x) == [x EXCEPT !.s = 1 - x.s]

\* (-1)^sx * mx * 2^e + (-1)^sy * my * 2^e for mx, my # 0
ExactAddAligned(sx, mx, sy, my, e) ==
    IF sx = sy THEN FNorm(sx, BAdd(mx, my), e)
    ELSE IF BCmp(mx, my) = 0 THEN [s |-> 0, m |-> <<>>, e |-> 0]
    ELSE IF BCmp(mx, my) > 0 THEN FNorm(sx, BSub(mx, my), e)
    ELSE FNorm(sy, BSub(my, mx), e)

\* x + y as a real number: the exact sum, not rounded.  The sum of two
\* zeros and an exact cancellation have the sign IEEE-754 gives them.
ExactAdd(x, y) ==
    IF FIsZero(x) /\ FIsZero(y)
    THEN [s |-> IF x.s = 1 /\ y.s = 1 THEN 1 ELSE 0, m |-> <<>>, e |-> 0]
    ELSE IF FIsZero(x) THEN y
    ELSE IF FIsZero(y) THEN x
    ELSE ExactAddAligned(x.s, BShl(x.m, x.e - Min(x.e, y.e)),
                         y.s, BShl(y.m, y.e - Min(x.e, y.e)), Min(x.e, y.e))

\* x * y as a real number
ExactMul(x, y) ==
    IF FIsZero(x) \/ FIsZero(y) THEN [s |-> (x.s + y.s) % 2, m |-> <<>>, e |-> 0]
    ELSE FNorm((x.s + y.s) % 2, BMul(x.m, y.m), x.e + y.e)

\* float + float: the exact sum, rounded.  A sum with a zero is exact.
FAdd(x, y) ==
    IF FIsZero(x) \/ FIsZero(y) THEN ExactAdd(x, y) ELSE FRoundOf(ExactAdd(x, y))

\* float - float
FSub(x, y) == FAdd(x, FNeg(y))

\* float * float: the exact product, rounded.  A product with a zero is
\* exact.
FMul(x, y) ==
    IF FIsZero(x) \/ FIsZero(y) THEN ExactMul(x, y) ELSE FRoundOf(ExactMul(x, y))

\* The 56-bit number hi * 2^28 + lo
BFromHalves(hi, lo) == BAdd(BShl(BFromInt(hi), 28), BFromInt(lo))

\* math.pi: 0x1.921fb54442d18p+1, that is 0x1921fb54442d18 * 2^-51, with
\* 0x1921fb5 = 26353589 and 0x4442d18 = 71576856
MathPi == FNorm(0, BFromHalves(26353589, 71576856), -51)

\* math.pi / 2, the angle of both rules (a division by two is exact)
HalfPi == [MathPi EXCEPT !.e = @ - 1]

\* math.cos(math.pi / 2) as the C library returns it: 0x1.1a62633145c07p-54,
\* the cosine of the float nearest to pi/2, which is not 0.
\* It is 0x11a62633145c07 * 2^-106, with 0x11a6263 = 18506339 and
\* 0x3145c07 = 51665927.
CosHalfPi == FNorm(0, BFromHalves(18506339, 51665927), -106)

\* math.cos at the two angles the program uses: cos(-x) = cos(x)
MathCos(angle) ==
    CASE angle = HalfPi \/ angle = FNeg(HalfPi) -> CosHalfPi

\* math.sin at the same angles: sin(pi/2) = 1.0, sin(-pi/2) = -1.0
MathSin(angle) ==
    CASE angle = HalfPi -> FromInt(1)
      [] angle = FNeg(HalfPi) -> FromInt(-1)

\* The literal 0.5
Half == [s |-> 0, m |-> <<1>>, e |-> -1]

(***************************************************************************)
(* class Point.  Point defines no __eq__, so == on two Points is Python's  *)
(* default: object identity.  A Point therefore carries the identity of    *)
(* the object, id, next to its coordinates; every constructor call is      *)
(* given the identity of the object it creates.                            *)
(***************************************************************************)
Point(id, x, y) == [id |-> id, x |-> x, y |-> y]

\* Point.__add__
Point_add(self, other, id) ==
    Point(id, FAdd(self.x, other.x), FAdd(self.y, other.y))

\* A faulty Point.__sub__ with its operands exchanged: other - self.
Point_sub_swapped(self, other, id) ==
    Point(id, FSub(other.x, self.x), FSub(other.y, self.y))

\* Point.__sub__
Point_sub(self, other, id) ==
    Point(id, FSub(self.x, other.x), FSub(self.y, other.y))

\* A faulty Point.__mul__ that drops the factor.
Point_mul_unscaled(self, other, id) == Point(id, self.x, self.y)

\* Point.__mul__
Point_mul(self, other, id) ==
    Point(id, FMul(self.x, other), FMul(self.y, other))

\* A faulty Point.left with the other sign convention (y increasing upward):
\* x' = cos * x - sin * y, y' = sin * x + cos * y.
Point_left_mirrored(self, angle, id) ==
    Point(id,
          FAdd(FMul(MathCos(angle), self.x), FMul(FNeg(MathSin(angle)), self.y)),
          FAdd(FMul(MathSin(angle), self.x), FMul(MathCos(angle), self.y)))

\* Point.left
Point_left(self, angle, id) ==
    LET c == MathCos(angle)
        s == MathSin(angle)
    IN  Point(id,
              FAdd(FMul(c, self.x), FMul(s, self.y)),
              FAdd(FMul(FNeg(s), self.x), FMul(c, self.y)))

\* A faulty Point.right that does not negate the angle.
Point_right_unnegated(self, angle, id) == Point_left(self, angle, id)

\* Point.right
Point_right(self, angle, id) == Point_left(self, FNeg(angle), id)

\* a == b on Points: identity
PointEq(a, b) == a.id = b.id

\* LineSegment.__init__
LineSegment(p1, p2) == [p1 |-> p1, p2 |-> p2]

\* A faulty SidedSegment.__init__ that stores a copy of p1, a new object.
SidedSegment_copying(p1, p2, side) ==
    [p1 |-> [p1 EXCEPT !.id = @ \o <<0>>], p2 |-> p2, side |-> side]

\* SidedSegment.__init__
SidedSegment(p1, p2, side) == [p1 |-> p1, p2 |-> p2, side |-> side]

(***************************************************************************)
(* The rules.  `at` is the position of the call in the recursion (the path *)
(* of child indexes from the seed); the objects a call creates are         *)
(* numbered 5.. under it, so that object identities never collide (child   *)
(* indexes are 1..4).                                                      *)
(***************************************************************************)
up_half_across_and_down(self, at) ==
    IF self.side = "left"
    THEN LET v_half == Point_mul(Point_sub(self.p2, self.p1, at \o <<5>>), Half, at \o <<6>>)
             v_up   == Point_left(v_half, HalfPi, at \o <<7>>)
             p_a    == Point_add(self.p1, v_up, at \o <<8>>)
             p_b    == Point_add(p_a, v_half, at \o <<9>>)
             p_c    == Point_add(self.p2, v_up, at \o <<10>>)
         IN  << SidedSegment(self.p1, p_a, "right"),
                SidedSegment(p_a, p_b, "left"),
                SidedSegment(p_b, p_c, "left"),
                SidedSegment(p_c, self.p2, "right") >>
    ELSE LET v_half == Point_mul(Point_sub(self.p2, self.p1, at \o <<5>>), Half, at \o <<6>>)
             v_down == Point_right(v_half, HalfPi, at \o <<7>>)
             p_a    == Point_add(self.p1, v_down, at \o <<8>>)
             p_b    == Point_add(p_a, v_half, at \o <<9>>)
             p_c    == Point_add(self.p2, v_down, at \o <<10>>)
         IN  << SidedSegment(self.p1, p_a, "left"),
                SidedSegment(p_a, p_b, "right"),
                SidedSegment(p_b, p_c, "right"),
                SidedSegment(p_c, self.p2, "left") >>

left_triangle(elem, at) ==
    LET p1   == elem.p1
        p2   == elem.p2
        fwd  == Point_mul(Point_sub(p2, p1, at \o <<5>>), Half, at \o <<6>>)
        left == Point_left(fwd, HalfPi, at \o <<7>>)
        mid  == Point_add(p1, fwd, at \o <<8>>)
        up   == Point_add(mid, left, at \o <<9>>)
    IN  << LineSegment(p1, mid),
           LineSegment(mid, up),
           LineSegment(up, mid),
           LineSegment(mid, p2) >>

\* f(elem) for the rule named f
ApplyRule(f, elem, at) ==
    CASE f = "up_half_across_and_down" -> up_half_across_and_down(elem, at)
      [] f = "left_triangle" -> left_triangle(elem, at)

(***************************************************************************)
(* fractal.  The code has no guard on depth: with a negative depth the     *)
(* test depth == 0 never succeeds and the recursion descends through the   *)
(* first child until Python's recursion limit raises RecursionError.       *)
(* StackLimit stands for that limit (1000 frames by default).  The result  *)
(* records the number of rule applications made, calls.                    *)
(***************************************************************************)
StackLimit == 8

RECURSIVE fractal(_, _, _, _)

\* The total of the calls made by the first k of the expansions
RECURSIVE SumCalls(_, _)
SumCalls(results, k) ==
    IF k = 0 THEN 0 ELSE SumCalls(results, k - 1) + results[k].calls

\* The lists of the expansions i.., one after the other
RECURSIVE Concat(_, _)
Concat(results, i) ==
    IF i > Len(results) THEN <<>> ELSE results[i].elems \o Concat(results, i + 1)

\* The expansions of the children put together, and the call of the rule
\* counted: a failure if one of them failed, with the calls made up to the
\* first that did.
Gather(results) ==
    IF \A i \in 1..Len(results) : results[i].ok
    THEN [ok |-> TRUE, elems |-> Concat(results, 1),
          calls |-> 1 + SumCalls(results, Len(results))]
    ELSE [ok |-> FALSE, elems |-> <<>>,
          calls |-> 1 + SumCalls(results,
                                 CHOOSE k \in 1..Len(results) :
                                     /\ ~results[k].ok
                                     /\ \A j \in 1..(k - 1) : results[j].ok)]

\* itertools.chain(*(fractal(e, f, depth - 1) for e in sub_elems)): the
\* children are expanded in order and the first exception ends the call,
\* so the children after a first child that failed are not expanded.
\* (Both rules return four children: sub_elems is not empty.)
chain(sub_elems, f, depth, at) ==
    LET first == fractal(sub_elems[1], f, depth - 1, at \o <<1>>)
    IN  IF first.ok
        THEN Gather(<<first>> \o
                    [i \in 1..(Len(sub_elems) - 1) |->
                        fractal(sub_elems[i + 1], f, depth - 1, at \o <<i + 1>>)])
        ELSE Gather(<<first>>)

\* A faulty fractal whose recursion ends one level early, at depth 1.
fractal_stops_early(elem, f, depth, at) ==
    IF Len(at) >= StackLimit
    THEN [ok |-> FALSE, elems |-> <<>>, calls |-> 0]
    ELSE IF depth = 0 \/ depth = 1
    THEN [ok |-> TRUE, elems |-> <<elem>>, calls |-> 0]
    ELSE chain(ApplyRule(f, elem, at), f, depth, at)

fractal(elem, f, depth, at) ==
    IF Len(at) >= StackLimit
    THEN [ok |-> FALSE, elems |-> <<>>, calls |-> 0]
    ELSE IF depth = 0
    THEN [ok |-> TRUE, elems |-> <<elem>>, calls |-> 0]
    ELSE chain(ApplyRule(f, elem, at), f, depth, at)

(***************************************************************************)
(* Strings are sequences of one-character strings.                         *)
(***************************************************************************)
Digit(n) == <<"0", "1", "2", "3", "4", "5", "6", "7", "8", "9">>[n + 1]

RECURSIVE IntDigits(_)
IntDigits(n) ==
    IF n < 10 THEN <<Digit(n)>> ELSE IntDigits(n \div 10) \o <<Digit(n % 10)>>

\* n / 2^k for k > 0, rounded to the nearest integer, ties to even
RoundShr(n, k) ==
    BToInt(BShr(n, k))
    + (IF /\ BTestBit(n, k - 1) = 1
          /\ \/ ~BLowZero(n, k - 1)
             \/ BTestBit(BShr(n, k), 0) = 1
       THEN 1 ELSE 0)

\* |x| in thousandths, rounded to the nearest integer, ties to even: the
\* digits "%.3f" prints.
Milli(x) ==
    IF x.e >= 0 THEN BToInt(BShl(BMulLimb(x.m, 1000), x.e))
    ELSE RoundShr(BMulLimb(x.m, 1000), 0 - x.e)

\* n spaces
Spaces(n) == IF n > 0 THEN [i \in 1..n |-> " "] ELSE <<>>

\* The sign and the digits of t thousandths, padded on the left to six
\* characters.
FormatMilli(neg, t) ==
    Spaces(6 - (IF neg THEN 1 ELSE 0) - Len(IntDigits(t \div 1000)) - 4)
    \o (IF neg THEN <<"-">> ELSE <<>>)
    \o IntDigits(t \div 1000)
    \o <<".", Digit((t \div 100) % 10), Digit((t \div 10) % 10), Digit(t % 10)>>

\* "%6.3f" % x
FormatF(x) == FormatMilli(x.s = 1, Milli(x))

\* Point.as_string_with_comma
as_string_with_comma(self) == FormatF(self.x) \o <<",">> \o FormatF(self.y)

\* " ".join(parts[lo..hi])
RECURSIVE Join(_, _, _)
Join(parts, lo, hi) ==
    IF lo > hi THEN <<>>
    ELSE IF lo = hi THEN parts[lo]
    ELSE LET mid == (lo + hi) \div 2
         IN  Join(parts, lo, mid) \o <<" ">> \o Join(parts, mid + 1, hi)

\* A faulty segments_to_points whose result starts empty instead of with
\* segments[0].p1.
segments_to_points_no_start(segments) ==
    IF \E i \in 1..(Len(segments) - 1) : ~PointEq(segments[i].p2, segments[i + 1].p1)
    THEN [ok |-> FALSE, err |-> "AssertionError", points |-> <<>>]
    ELSE IF segments = <<>>
    THEN [ok |-> FALSE, err |-> "IndexError", points |-> <<>>]
    ELSE [ok |-> TRUE, err |-> "none",
          points |-> [i \in 1..Len(segments) |-> segments[i].p2]]

(***************************************************************************)
(* segments_to_points: the assertion compares Points with ==, that is by   *)
(* identity; an empty list passes it and fails at segments[0].             *)
(***************************************************************************)
segments_to_points(segments) ==
    IF ~(\A i \in 1..(Len(segments) - 1) :
            PointEq(segments[i].p2, segments[i + 1].p1))
    THEN [ok |-> FALSE, err |-> "AssertionError", points |-> <<>>]
    ELSE IF segments = <<>>
    THEN [ok |-> FALSE, err |-> "IndexError", points |-> <<>>]
    ELSE [ok |-> TRUE, err |-> "none",
          points |-> [i \in 1..(Len(segments) + 1) |->
                        IF i = 1 THEN segments[1].p1 ELSE segments[i - 1].p2]]

\* parts of points_to_stroke_d, for a non-empty list: "M", the first point,
\* and then "L" and the point for every point of the list, the first included.
StrokeParts(points) ==
    [i \in 1..(2 + 2 * Len(points)) |->
        IF i = 1 THEN <<"M">>
        ELSE IF i = 2 THEN as_string_with_comma(points[1])
        ELSE IF i % 2 = 1 THEN <<"L">>
        ELSE as_string_with_comma(points[(i - 2) \div 2])]

\* " ".join(parts)
points_to_stroke_d(points) == Join(StrokeParts(points), 1, 2 + 2 * Len(points))

(***************************************************************************)
(* The inputs.  Seed coordinates are the small integers a caller writes    *)
(* (make_pattern writes Point(0, 100)); they are the floats of the same    *)
(* value, on which int and float arithmetic agree.                         *)
(***************************************************************************)
MaxDepth == 3

MaxNegDepth == 1

MaxSegments == 2

\* make_pattern: fractal(init, SidedSegment.up_half_across_and_down, 6)
PatternDepth == 6

\* <<x1, y1, x2, y2>>: the seed from (x1, y1) to (x2, y2)
Seeds ==
    { <<0, 0, 100, 0>>, <<0, 100, 100, 100>>, <<0, 0, 10, 0>>, <<0, 0, 0, 8>>,
      <<0, 0, 4, 4>>, <<1, 2, 5, 3>>, <<10, 0, 0, 0>>, <<7, 1, 2, 9>>,
      <<3, 3, 3, 3>> }

SeedP1(sd) == Point(<<11>>, FromInt(sd[1]), FromInt(sd[2]))

SeedP2(sd) == Point(<<12>>, FromInt(sd[3]), FromInt(sd[4]))

\* init of make_pattern
PatternInit ==
    SidedSegment(Point(<<11>>, FromInt(0), FromInt(100)),
                 Point(<<12>>, FromInt(100), FromInt(100)), "left")

FractalCalls ==
    { [fn |-> "fractal", elem |-> SidedSegment(SeedP1(sd), SeedP2(sd), side),
       f |-> "up_half_across_and_down", depth |-> dp] :
        sd \in Seeds, side \in {"left", "right"}, dp \in (0 - MaxNegDepth)..MaxDepth }
    \cup
    { [fn |-> "fractal", elem |-> LineSegment(SeedP1(sd), SeedP2(sd)),
       f |-> "left_triangle", depth |-> dp] :
        sd \in Seeds, dp \in (0 - MaxNegDepth)..MaxDepth }
    \cup
    { [fn |-> "fractal", elem |-> PatternInit,
       f |-> "up_half_across_and_down", depth |-> PatternDepth] }

\* The Point objects a caller of segments_to_points builds its lists from:
\* the second and the third are two objects with the same coordinates.
CallerPoints ==
    { Point(<<13>>, FromInt(0), FromInt(0)), Point(<<14>>, FromInt(1), FromInt(0)),
      Point(<<15>>, FromInt(1), FromInt(0)), Point(<<16>>, FromInt(2), FromInt(0)) }

CallerSegments == { LineSegment(a, b) : a, b \in CallerPoints }

SegmentLists ==
    UNION { [1..n -> CallerSegments] : n \in 0..MaxSegments }

SegmentCalls == { [fn |-> "segments_to_points", segments |-> l] : l \in SegmentLists }

(***************************************************************************)
(* The state: the call being made and the results of the steps run so      *)
(* far.  A caller either runs the pipeline of make_pattern (fractal, then  *)
(* segments_to_points, then points_to_stroke_d) or hands a list of its own *)
(* to segments_to_points.                                                  *)
(***************************************************************************)
VARIABLES pc, call, elems, calls, points, d, err

vars == <<pc, call, elems, calls, points, d, err>>

Init ==
    /\ pc = "start"
    /\ call \in FractalCalls \cup SegmentCalls
    /\ elems = <<>>
    /\ calls = 0
    /\ points = <<>>
    /\ d = <<>>
    /\ err = "none"

\* elems = fractal(elem, f, depth)
Fractal ==
    /\ pc = "start"
    /\ call.fn = "fractal"
    /\ \E r \in {fractal(call.elem, call.f, call.depth, <<>>)} :
           /\ pc' = IF r.ok THEN "expanded" ELSE "failed"
           /\ elems' = r.elems
           /\ calls' = r.calls
           /\ err' = IF r.ok THEN "none" ELSE "RecursionError"
    /\ UNCHANGED <<call, points, d>>

\* points = segments_to_points(elems), or of the caller's own list
SegmentsToPoints ==
    /\ \/ pc = "expanded"
       \/ pc = "start" /\ call.fn = "segments_to_points"
    /\ elems' = IF pc = "start" THEN call.segments ELSE elems
    /\ \E r \in {segments_to_points(elems')} :
           /\ pc' = IF r.ok THEN "flattened" ELSE "failed"
           /\ points' = r.points
           /\ err' = r.err
    /\ UNCHANGED <<call, calls, d>>

\* d = points_to_stroke_d(points)
PointsToStrokeD ==
    /\ pc = "flattened"
    /\ d' = points_to_stroke_d(points)
    /\ pc' = "done"
    /\ UNCHANGED <<call, elems, calls, points, err>>

Next == Fractal \/ SegmentsToPoints \/ PointsToStrokeD

Spec == Init /\ [][Next]_vars

(***************************************************************************)
(* Exact arithmetic for the properties.  A real number has the form of a   *)
(* float without the limit on the mantissa; ExactAdd and ExactMul compute  *)
(* on such numbers without rounding.                                       *)
(***************************************************************************)
RSub(x, y) == ExactAdd(x, FNeg(y))

\* -1, 0 or 1
RSign(x) == IF FIsZero(x) THEN 0 ELSE IF x.s = 1 THEN -1 ELSE 1

RAbs(x) == [x EXCEPT !.s = 0]

RLe(x, y) == RSign(RSub(x, y)) <= 0

\* x * 2^k
RScale(x, k) == IF FIsZero(x) THEN x ELSE [x EXCEPT !.e = @ + k]

\* |x - y| <= tol
Within(x, y, tol) == RLe(RAbs(RSub(x, y)), tol)

\* The tolerance of the comparisons "up to rounding": 2^-30, below 1e-9.
Tolerance == [s |-> 0, m |-> <<1>>, e |-> -30]

\* Equality of floats as numbers: the two zeros are equal.
FEq(x, y) == (FIsZero(x) /\ FIsZero(y)) \/ x = y

\* The two points have the same coordinates.
SameCoords(a, b) == FEq(a.x, b.x) /\ FEq(a.y, b.y)

\* The point has exactly the coordinates (x, y), two integers.
At(p, x, y) == FEq(p.x, FromInt(x)) /\ FEq(p.y, FromInt(y))

\* The square of the distance from p to q
Dist2(p, q) ==
    ExactAdd(ExactMul(RSub(q.x, p.x), RSub(q.x, p.x)),
             ExactMul(RSub(q.y, p.y), RSub(q.y, p.y)))

\* (q - p) x (r - p): its sign is the side of the line pq on which r lies
Cross(p, q, r) ==
    RSub(ExactMul(RSub(q.x, p.x), RSub(r.y, p.y)),
         ExactMul(RSub(q.y, p.y), RSub(r.x, p.x)))

\* (p - e) . (q - e): not positive when e, on the line pq, lies between p and q
Dot(p, q, e) ==
    ExactAdd(ExactMul(RSub(p.x, e.x), RSub(q.x, e.x)),
             ExactMul(RSub(p.y, e.y), RSub(q.y, e.y)))

\* e is a point of the segment a
OnSegment(a, e) ==
    /\ RSign(Cross(a.p1, a.p2, e)) = 0
    /\ RSign(Dot(a.p1, a.p2, e)) <= 0

\* e lies on the segment a and is neither of its endpoints
Inside(a, e) ==
    /\ ~SameCoords(e, a.p1)
    /\ ~SameCoords(e, a.p2)
    /\ OnSegment(a, e)

\* The segments cross at a point interior to both.
ProperCross(a, b) ==
    /\ RSign(Cross(a.p1, a.p2, b.p1)) * RSign(Cross(a.p1, a.p2, b.p2)) < 0
    /\ RSign(Cross(b.p1, b.p2, a.p1)) * RSign(Cross(b.p1, b.p2, a.p2)) < 0

\* b is a again, in the same or in the opposite direction
Retrace(a, b) ==
    \/ SameCoords(a.p1, b.p1) /\ SameCoords(a.p2, b.p2)
    \/ SameCoords(a.p1, b.p2) /\ SameCoords(a.p2, b.p1)

\* The two segments (of non-zero length) share a point that is not an
\* endpoint of both: they cross, overlap, retrace, or one touches the other.
Touch(a, b) ==
    \/ Retrace(a, b)
    \/ Inside(a, b.p1) \/ Inside(a, b.p2)
    \/ Inside(b, a.p1) \/ Inside(b, a.p2)
    \/ ProperCross(a, b)

\* Consecutive segments chain by coordinates.
Connected(segs) ==
    \A i \in 1..(Len(segs) - 1) : SameCoords(segs[i].p2, segs[i + 1].p1)

\* No two segments touch; the neighbours are compared first.
NonSelfCrossing(segs) ==
    /\ \A i \in 1..(Len(segs) - 1) : ~Touch(segs[i], segs[i + 1])
    /\ \A i \in 1..(Len(segs) - 2) : \A j \in (i + 2)..Len(segs) : ~Touch(segs[i], segs[j])

\* The number of occurrences of the character ch in the string str
Count(ch, str) == Cardinality({i \in 1..Len(str) : str[i] = ch})

\* The call is fractal(seed, rule, depth) and fractal has returned.
Expanded == call.fn = "fractal" /\ pc \in {"expanded", "flattened", "done"}

\* ... and segments_to_points has returned too.
Flattened == call.fn = "fractal" /\ pc \in {"flattened", "done"}

\* The call is fractal(seed, rule, depth) with depth >= 0 and fractal has run.
Ran == call.fn = "fractal" /\ call.depth >= 0 /\ pc # "start"

\* The call starts from the seed (x1, y1) -> (x2, y2).
SeedIs(x1, y1, x2, y2) ==
    call.fn = "fractal" /\ At(call.elem.p1, x1, y1) /\ At(call.elem.p2, x2, y2)

(***************************************************************************)
(* The properties.                                                         *)
(***************************************************************************)

\* C1: for every depth >= 0, every seed and each of the two rules, any two
\* consecutive segments A, B of fractal(seed, rule, depth) satisfy
\* A.p2 == B.p1 (they hold the same Point object, hence the same
\* coordinates), so segments_to_points does not fail on the result.
C1_Connectivity ==
    Ran => /\ pc # "failed"
           /\ err = "none"
           /\ \A i \in 1..(Len(elems) - 1) :
                  /\ PointEq(elems[i].p2, elems[i + 1].p1)
                  /\ SameCoords(elems[i].p2, elems[i + 1].p1)

\* fractal has returned sixteen segments and segments_to_points accepted them
C1_Witness ==
    Ran /\ pc = "flattened" /\ call.depth = 2 /\ Len(elems) = 16

\* C2: for every depth >= 0, every seed and each rule, the first point of
\* segments_to_points(fractal(seed, rule, depth)) is the seed's p1 and the
\* last is the seed's p2; the pattern of make_pattern, depth 6 from
\* (0, 100) -> (100, 100), starts at (0, 100) and ends at (100, 100).
C2_EndpointPreservation ==
    Ran => /\ pc # "failed"
           /\ pc \in {"flattened", "done"} =>
                  /\ points # <<>>
                  /\ PointEq(points[1], call.elem.p1)
                  /\ SameCoords(points[1], call.elem.p1)
                  /\ PointEq(points[Len(points)], call.elem.p2)
                  /\ SameCoords(points[Len(points)], call.elem.p2)
           /\ (pc \in {"flattened", "done"} /\ call.depth = PatternDepth
                   /\ call.elem = PatternInit) =>
                  /\ At(points[1], 0, 100)
                  /\ At(points[Len(points)], 100, 100)

\* the pattern of make_pattern has been flattened
C2_Witness ==
    /\ Ran /\ pc = "flattened"
    /\ call.depth = PatternDepth /\ call.elem = PatternInit
    /\ Len(points) > 2

\* C3: for every depth d >= 0 and each rule, fractal(seed, rule, d) returns
\* exactly 4^d segments and segments_to_points of them exactly 4^d + 1
\* points: 4097 points at depth 6.
C3_GrowthLaw ==
    Ran => /\ pc # "failed"
           /\ Len(elems) = 4 ^ call.depth
           /\ pc \in {"flattened", "done"} => Len(points) = 4 ^ call.depth + 1
           /\ (pc \in {"flattened", "done"} /\ call.depth = 6) => Len(points) = 4097

\* depth 6 has been expanded and flattened, and depth 3 under each rule
C3_Witness ==
    /\ Ran /\ pc = "done"
    /\ \/ call.depth = 6 /\ Len(elems) = 4096
       \/ call.depth = 3 /\ call.f = "left_triangle" /\ Len(points) = 65

\* The exact quarter turn of half of (e - s): to the left, (x, y) |-> (y, -x),
\* for side left and to the right, (x, y) |-> (-y, x), for side right.
QuarterTurnX(s, e, side) ==
    IF side = "left" THEN RScale(RSub(e.y, s.y), -1) ELSE RScale(RSub(s.y, e.y), -1)

QuarterTurnY(s, e, side) ==
    IF side = "left" THEN RScale(RSub(s.x, e.x), -1) ELSE RScale(RSub(e.x, s.x), -1)

\* The point p is (x, y), two real numbers, up to tol in each coordinate.
Near(p, x, y, tol) == Within(p.x, x, tol) /\ Within(p.y, y, tol)

\* segs is s -> a, a -> b, b -> c, c -> e with the sides of the rule.
FourChildren(segs, s, e, side) ==
    /\ Len(segs) = 4
    /\ PointEq(segs[1].p1, s)
    /\ PointEq(segs[4].p2, e)
    /\ \A i \in 1..3 : PointEq(segs[i].p2, segs[i + 1].p1)
    /\ <<segs[1].side, segs[2].side, segs[3].side, segs[4].side>>
           = IF side = "left" THEN <<"right", "left", "left", "right">>
             ELSE <<"left", "right", "right", "left">>

\* a = s + w, b = a + v_half, c = e + w, each up to tol, for a, b, c the
\* ends of the first three segments, v_half half of (e - s) and w its
\* quarter turn.
Construction(segs, s, e, side, tol) ==
    /\ Near(segs[1].p2, ExactAdd(s.x, QuarterTurnX(s, e, side)),
                        ExactAdd(s.y, QuarterTurnY(s, e, side)), tol)
    /\ Near(segs[2].p2, ExactAdd(segs[1].p2.x, RScale(RSub(e.x, s.x), -1)),
                        ExactAdd(segs[1].p2.y, RScale(RSub(e.y, s.y), -1)), tol)
    /\ Near(segs[3].p2, ExactAdd(e.x, QuarterTurnX(s, e, side)),
                        ExactAdd(e.y, QuarterTurnY(s, e, side)), tol)

\* One application of up_half_across_and_down to the seed has returned.
UpHalfApplied ==
    Expanded /\ call.f = "up_half_across_and_down" /\ call.depth = 1

\* C4 as the code has it: up_half_across_and_down returns the four children
\* start -> a, a -> b, b -> c, c -> end with sides right, left, left, right
\* (side left) or left, right, right, left (side right), where a = start + w,
\* b = a + v_half, c = end + w hold up to rounding, w being v_half turned by
\* math.pi / 2, whose cosine is not 0.  For (0,0) -> (100,0), side left:
\* a = (50 * cos(pi/2), -50) = (3.06e-15, -50), b = (50,-50), c = (100,-50).
C4_UpHalfUpToRounding ==
    UpHalfApplied =>
        /\ FourChildren(elems, call.elem.p1, call.elem.p2, call.elem.side)
        /\ Construction(elems, call.elem.p1, call.elem.p2, call.elem.side, Tolerance)
        /\ (SeedIs(0, 0, 100, 0) /\ call.elem.side = "left") =>
               /\ elems[1].p2.x = FMul(MathCos(HalfPi), FromInt(50))
               /\ ~FIsZero(elems[1].p2.x)
               /\ FEq(elems[1].p2.y, FromInt(-50))
               /\ At(elems[2].p2, 50, -50)
               /\ At(elems[3].p2, 100, -50)

\* the rule has been applied to (0,0) -> (100,0), side left
C4_Witness ==
    UpHalfApplied /\ SeedIs(0, 0, 100, 0) /\ call.elem.side = "left" /\ Len(elems) = 4

\* C4 as stated: the construction is exact, and for (0,0) -> (100,0), side
\* left, a = (0,-50), b = (50,-50), c = (100,-50).
C4_UpHalfExact ==
    UpHalfApplied =>
        /\ FourChildren(elems, call.elem.p1, call.elem.p2, call.elem.side)
        /\ Construction(elems, call.elem.p1, call.elem.p2, call.elem.side, FromInt(0))
        /\ (SeedIs(0, 0, 100, 0) /\ call.elem.side = "left") =>
               /\ At(elems[1].p2, 0, -50)
               /\ At(elems[2].p2, 50, -50)
               /\ At(elems[3].p2, 100, -50)

\* left_triangle has been applied to (0,0) -> (10,0) and the result flattened.
TriangleFlattened ==
    Flattened /\ call.f = "left_triangle" /\ call.depth = 1 /\ SeedIs(0, 0, 10, 0)

\* C5 as the code has it: left_triangle on (0,0) -> (10,0), flattened, is
\* exactly [(0,0), (5,0), (5,-5), (5,0), (10,0)]: the spike points to -y.
C5_TriangleRetraceNegativeY ==
    TriangleFlattened =>
        /\ Len(points) = 5
        /\ At(points[1], 0, 0)
        /\ At(points[2], 5, 0)
        /\ At(points[3], 5, -5)
        /\ At(points[4], 5, 0)
        /\ At(points[5], 10, 0)

\* the five points of the triangle on (0,0) -> (10,0) have been produced
C5_Witness == TriangleFlattened /\ Len(points) = 5 /\ pc = "flattened"

\* C5 as stated: the points are exactly [(0,0), (5,0), (5,5), (5,0), (10,0)].
C5_TriangleRetrace ==
    TriangleFlattened =>
        /\ Len(points) = 5
        /\ At(points[1], 0, 0)
        /\ At(points[2], 5, 0)
        /\ At(points[3], 5, 5)
        /\ At(points[4], 5, 0)
        /\ At(points[5], 10, 0)

\* C6 as stated: fractal with a negative depth ends in an error before any
\* rule has been applied, and with a depth >= 0 it returns.
C6_NegativeDepthRejected ==
    (call.fn = "fractal" /\ pc # "start") =>
        /\ call.depth < 0 => (pc = "failed" /\ err # "none" /\ calls = 0)
        /\ call.depth >= 0 => (pc # "failed" /\ err = "none")

\* fractal with a negative depth has recursed to the limit of the stack
C6_Witness ==
    /\ call.fn = "fractal" /\ call.depth < 0
    /\ pc = "failed" /\ err = "RecursionError" /\ calls = StackLimit

\* segments_to_points has run on a list of the caller's.
ListFlattened == call.fn = "segments_to_points" /\ pc # "start"

\* C7 as stated: on a non-empty list whose segments chain by coordinates
\* segments_to_points returns the first start and then every end; on a
\* list with a pair that does not chain it fails with an assertion and
\* returns no points.
C7_FlatteningContract ==
    (ListFlattened /\ call.segments # <<>>) =>
        IF Connected(call.segments)
        THEN /\ pc \in {"flattened", "done"}
             /\ Len(points) = Len(call.segments) + 1
             /\ SameCoords(points[1], call.segments[1].p1)
             /\ \A i \in 1..Len(call.segments) :
                    SameCoords(points[i + 1], call.segments[i].p2)
        ELSE pc = "failed" /\ err = "AssertionError" /\ points = <<>>

\* two segments that chain by coordinates through two Point objects have
\* been refused
C7_Witness ==
    /\ ListFlattened /\ Len(call.segments) = 2
    /\ Connected(call.segments)
    /\ pc = "failed" /\ err = "AssertionError"

\* "M", the first point, and "L" and the point for every later point
PartsAsSpecified(pts) ==
    [i \in 1..(2 * Len(pts)) |->
        IF i = 1 THEN <<"M">>
        ELSE IF i % 2 = 1 THEN <<"L">>
        ELSE as_string_with_comma(pts[i \div 2])]

\* C8 as stated: for n points the string has one M, n - 1 L and n
\* coordinate pairs, the i-th pair being the i-th point.
C8_StrokeSerialization ==
    pc = "done" =>
        /\ Count("M", d) = 1
        /\ Count("L", d) = Len(points) - 1
        /\ Count(",", d) = Len(points)
        /\ d = Join(PartsAsSpecified(points), 1, 2 * Len(points))

\* a string with as many L as points has been produced
C8_Witness ==
    pc = "done" /\ Len(points) = 2 /\ Count("L", d) = 2 /\ Count(",", d) = 3

\* fractal has expanded a sided seed of non-zero length to depth >= 1.
CurveDrawn ==
    /\ Expanded /\ call.f = "up_half_across_and_down" /\ call.depth >= 1
    /\ ~SameCoords(call.elem.p1, call.elem.p2)

\* b leads back to the start of a, up to tol in each coordinate, a being
\* longer than that: a segment drawn forth and back.
RetraceUpTo(a, b, tol) ==
    /\ SameCoords(a.p2, b.p1)
    /\ Near(b.p2, a.p1.x, a.p1.y, tol)
    /\ ~Near(a.p2, a.p1.x, a.p1.y, tol)

\* C9 as the code has it: the curve is connected at every depth >= 1 and
\* non-self-crossing at depth 1; from depth 2 on it retraces itself, two
\* consecutive segments being one segment drawn forth and back, up to
\* rounding in general and exactly for (0,0) -> (100,0).
C9_NonSelfCrossingAtDepthOne ==
    CurveDrawn =>
        /\ Connected(elems)
        /\ call.depth = 1 => NonSelfCrossing(elems)
        /\ call.depth >= 2 =>
               \E i \in 1..(Len(elems) - 1) :
                   RetraceUpTo(elems[i], elems[i + 1], Tolerance)
        /\ (call.depth >= 2 /\ SeedIs(0, 0, 100, 0)) =>
               \E i \in 1..(Len(elems) - 1) : Retrace(elems[i], elems[i + 1])

\* the curve of depth 2 on (0,0) -> (100,0), side left, with its retrace of
\* (50,-75) -> (50,-50)
C9_Witness ==
    /\ CurveDrawn /\ call.depth = 2 /\ SeedIs(0, 0, 100, 0) /\ call.elem.side = "left"
    /\ \E i \in 1..(Len(elems) - 1) :
           /\ At(elems[i].p1, 50, -75) /\ At(elems[i].p2, 50, -50)
           /\ At(elems[i + 1].p1, 50, -50) /\ At(elems[i + 1].p2, 50, -75)

\* C9 as stated: at every depth >= 1 the curve is connected and no two of
\* its segments share a point other than a common endpoint.
C9_NonSelfCrossing ==
    CurveDrawn => (Connected(elems) /\ NonSelfCrossing(elems))

\* The squared length of the seed
SeedDist2 == Dist2(call.elem.p1, call.elem.p2)

\* C10 as the code has it: fractal(seed, rule, d) has 4^d segments, each of
\* length |seed| / 2^d up to rounding (the squared lengths agree to a
\* relative 2^-30), so the path has length 2^d |seed| up to rounding.
C10_HalvingUpToRounding ==
    Expanded =>
        /\ Len(elems) = 4 ^ call.depth
        /\ \A i \in 1..Len(elems) :
               Within(RScale(Dist2(elems[i].p1, elems[i].p2), 2 * call.depth),
                      SeedDist2, ExactMul(SeedDist2, Tolerance))

\* a child of (0,0) -> (100,0) whose length is not exactly 50
C10_Witness ==
    /\ Expanded /\ call.depth = 1 /\ SeedIs(0, 0, 100, 0)
    /\ RSign(RSub(RScale(Dist2(elems[1].p1, elems[1].p2), 2), SeedDist2)) # 0

\* C10 as stated: every segment of fractal(seed, rule, d) has exactly the
\* length |seed| / 2^d.
C10_UniformHalving ==
    Expanded =>
        /\ Len(elems) = 4 ^ call.depth
        /\ \A i \in 1..Len(elems) :
               RSign(RSub(RScale(Dist2(elems[i].p1, elems[i].p2), 2 * call.depth),
                          SeedDist2)) = 0

====
